---------------------------- MODULE Spec2Model ----------------------------
(***************************************************************************)
(* TalentScout hiring assistant (main.py, utils.py, prompts.py).           *)
(*                                                                         *)
(* The application is a Streamlit script: every user interaction re-runs   *)
(* the whole script top to bottom against the session state.  One action   *)
(* of this model is one user interaction, i.e. one complete script run     *)
(* (resume section, manual form, generate_questions stage, deletion        *)
(* section), including the st.rerun() that follows a Regenerate.           *)
(*                                                                         *)
(* Python strings whose characters matter (emails, tech stacks, resume     *)
(* texts, roles, country codes) are sequences of one-character strings.    *)
(***************************************************************************)
EXTENDS Integers, Sequences, FiniteSets, TLC

(***************************************************************************)
(* Characters and Python string helpers                                    *)
(***************************************************************************)
UpperAlpha ==
  <<"A","B","C","D","E","F","G","H","I","J","K","L","M",
    "N","O","P","Q","R","S","T","U","V","W","X","Y","Z">>

LowerAlpha ==
  <<"a","b","c","d","e","f","g","h","i","j","k","l","m",
    "n","o","p","q","r","s","t","u","v","w","x","y","z">>

Digits ==
  {"0","1","2","3","4","5","6","7","8","9"}

Range(s) ==
  {s[i] : i \in 1..Len(s)}

\* the regex class \w
WordChars ==
  Range(UpperAlpha) \cup Range(LowerAlpha) \cup Digits \cup {"_"}

\* the regex class [\w\.-]
EmailChars ==
  WordChars \cup {".", "-"}

\* the lower-case letter of each upper-case letter, and the converse
ToLower ==
  [c \in Range(UpperAlpha) |-> LowerAlpha[CHOOSE i \in 1..26 : UpperAlpha[i] = c]]

ToUpper ==
  [c \in Range(LowerAlpha) |-> UpperAlpha[CHOOSE i \in 1..26 : LowerAlpha[i] = c]]

lower_char(c) ==
  IF c \in DOMAIN ToLower THEN ToLower[c] ELSE c

upper_char(c) ==
  IF c \in DOMAIN ToUpper THEN ToUpper[c] ELSE c

\* str.lower()
lower(s) ==
  [i \in 1..Len(s) |-> lower_char(s[i])]

\* str.upper()
upper(s) ==
  [i \in 1..Len(s) |-> upper_char(s[i])]

\* the Python test  sub in s
Contains(s, sub) ==
  \E i \in 0..(Len(s) - Len(sub)) :
    \A k \in 1..Len(sub) : s[i + k] = sub[k]

\* sep.join(parts)
RECURSIVE Join(_, _)
Join(parts, sep) ==
  IF Len(parts) = 0 THEN <<>>
  ELSE IF Len(parts) = 1 THEN parts[1]
  ELSE parts[1] \o sep \o Join(Tail(parts), sep)

CommaSpace ==
  <<",", " ">>

\* every ordering of a finite set, as sequences without repetition
Orderings(S) ==
  {q \in [1..Cardinality(S) -> S] : \A i, j \in 1..Cardinality(S) : i # j => q[i] # q[j]}

(***************************************************************************)
(* Validators                                                              *)
(***************************************************************************)
\* re.match(r"^[\w\.-]+@[\w\.-]+\.\w+$", email) is not None
validate_email(email) ==
  \E i \in 2..Len(email) :
    /\ email[i] = "@"
    /\ \A k \in 1..(i - 1) : email[k] \in EmailChars
    /\ \E j \in (i + 2)..(Len(email) - 1) :
         /\ email[j] = "."
         /\ \A k \in (i + 1)..(j - 1) : email[k] \in EmailChars
         /\ \A k \in (j + 1)..Len(email) : email[k] \in WordChars

\* The numbering plans of the phonenumbers library, restricted to the
\* numbers the model enters: the national number 4155552671 is a valid
\* number of region US and of no other region entered here; parsing a
\* number without a leading + against an unknown region raises
\* NumberParseException.
ValidNumbers ==
  {<<"4155552671", <<"U", "S">> >>}

validate_phone(phone, country_code) ==
  <<phone, country_code>> \in ValidNumbers

(***************************************************************************)
(* utils.py: skill detection, role and email inference                     *)
(***************************************************************************)
keywords ==
  << <<"P","y","t","h","o","n">>,
     <<"J","a","v","a">>,
     <<"J","a","v","a","S","c","r","i","p","t">>,
     <<"R","e","a","c","t">>,
     <<"N","o","d","e">>,
     <<"A","W","S">>,
     <<"D","o","c","k","e","r">>,
     <<"K","u","b","e","r","n","e","t","e","s">>,
     <<"S","Q","L">>,
     <<"G","i","t">> >>

\* the match made on the text as written
found_keywords_cased(text) ==
  {kw \in Range(keywords) : Contains(text, kw)}

\* set([kw for kw in keywords if kw.lower() in text.lower()])
found_keywords(text) ==
  UNION { {kw \in Range(keywords) : \E k \in {lower(kw)} : Contains(t, k)} : t \in {lower(text)} }

\* list(set(found)): the iteration order of a Python set of strings is not
\* fixed by the language, so the result is any ordering of the found set.
extract_tech_keywords(text) ==
  Orderings(found_keywords(text))

role_words ==
  << <<"d","e","v","e","l","o","p","e","r">>,
     <<"e","n","g","i","n","e","e","r">>,
     <<"m","a","n","a","g","e","r">>,
     <<"a","n","a","l","y","s","t">>,
     <<"a","r","c","h","i","t","e","c","t">>  >>

default_role ==
  <<"S","o","f","t","w","a","r","e"," ","E","n","g","i","n","e","e","r">>

\* pattern word matches text at position i, ignoring case
MatchesAt(text, i, word) ==
  /\ i + Len(word) - 1 <= Len(text)
  /\ \A k \in 1..Len(word) : lower_char(text[i + k - 1]) = word[k]

\* str.title() of a single alphabetic word
title(s) ==
  [i \in 1..Len(s) |-> IF i = 1 THEN upper_char(s[i]) ELSE lower_char(s[i])]

\* re.search(r"(developer|engineer|manager|analyst|architect)", text,
\* re.IGNORECASE): leftmost position, first alternative that matches there
infer_role(text) ==
  LET hits == {i \in 1..Len(text) : \E w \in 1..Len(role_words) : MatchesAt(text, i, role_words[w])}
  IN IF hits = {} THEN default_role
     ELSE LET i == CHOOSE h \in hits : \A g \in hits : h <= g
              w == CHOOSE v \in 1..Len(role_words) :
                     /\ MatchesAt(text, i, role_words[v])
                     /\ \A u \in 1..(v - 1) : ~MatchesAt(text, i, role_words[u])
          IN title(SubSeq(text, i, i + Len(role_words[w]) - 1))

AlnumChars ==
  Range(UpperAlpha) \cup Range(LowerAlpha) \cup Digits

\* end of the longest run of characters of class cls starting at from
\* (from - 1 when the run is empty)
RunEnd(text, from, cls) ==
  CHOOSE e \in (from - 1)..Len(text) :
    /\ \A k \in from..e : text[k] \in cls
    /\ (e < Len(text) => text[e + 1] \notin cls)

\* end of the match of [a-zA-Z0-9_.+-]+@[a-zA-Z0-9-]+\.[a-zA-Z0-9-.]+
\* starting at s, or 0 when there is none (each greedy run is followed by a
\* character outside its class, so backtracking finds nothing more)
EmailMatchEnd(text, s) ==
  LET p == RunEnd(text, s, AlnumChars \cup {"_", ".", "+", "-"}) + 1
      q == RunEnd(text, p + 1, AlnumChars \cup {"-"}) + 1
      e == RunEnd(text, q + 1, AlnumChars \cup {"-", "."})
  IN IF /\ p > s /\ p <= Len(text) /\ text[p] = "@"
        /\ q > p + 1 /\ q <= Len(text) /\ text[q] = "."
        /\ e > q
     THEN e ELSE 0

infer_email(text) ==
  LET starts == {s \in 1..Len(text) : EmailMatchEnd(text, s) > 0}
  IN IF starts = {} THEN <<>>
     ELSE LET s == CHOOSE h \in starts : \A g \in starts : h <= g
          IN SubSeq(text, s, EmailMatchEnd(text, s))

\* the possible results (skills, role, extracted_email) for a text
extract_skills_and_role_from_text(text) ==
  {[skills |-> sk, role |-> infer_role(text), extracted_email |-> infer_email(text)] :
     sk \in extract_tech_keywords(text)}

(***************************************************************************)
(* prompts.py                                                              *)
(***************************************************************************)
\* The f-string: fixed template text around the role and the joined skills.
\* The three fixed pieces of the template are kept as single tokens.
generate_questions_prompt(skills, role) ==
  <<"You are an AI technical interviewer ... for the role of **">> \o role
    \o <<"** with the following skills: ">> \o Join(skills, CommaSpace)
    \o <<". For each question ... up to Q10.">>

(***************************************************************************)
(* Bounds and the values the user and the environment supply               *)
(***************************************************************************)
\* most rows the candidates table holds when a new session may still start
MaxStore == 2

NoFile ==
  [uploaded |-> FALSE]

\* resume texts (extract_resume_text of a .txt upload is its decoded
\* content): one naming a skill, a role and an email, one naming none.
\* Texts with several skills are those of ExtractTexts below.
ResumeTexts ==
  { <<"s","q","l"," ","e","n","g","i","n","e","e","r"," ","a","@","b",".","c">>,
    <<"h","i">> }

Email1 == <<"a","@","b",".","c">>
Email2 == <<"x","@","b",".","c">>
BadEmail == <<"a","b",".","c">>
NoSuffixEmail == <<"a","@","b">>

\* datetime.now().strftime("%Y-%m-%d %H:%M:%S") as read at a submission
Timestamps ==
  {"2026-01-01 10:00:00"}

\* a manual form that passes every check of the submit handler
BaseForm ==
  [name |-> "Ann", email |-> Email1, phone |-> "4155552671", exp |-> 1,
   position |-> <<"D","e","v">>, location |-> "NYC", country |-> <<"U","S">>,
   tech_stack |-> <<"G","i","t">>, consent |-> TRUE]

\* the manual forms the user submits: the base form, valid variants of it,
\* and the base form with one or several fields made to fail a check
ManualForms ==
  { BaseForm,
    [BaseForm EXCEPT !.email = Email2, !.country = <<"u","s">>,
                     !.tech_stack = <<"C","+","+">>, !.exp = 0],
    [BaseForm EXCEPT !.name = ""],
    [BaseForm EXCEPT !.email = <<>>],
    [BaseForm EXCEPT !.phone = ""],
    [BaseForm EXCEPT !.position = <<>>],
    [BaseForm EXCEPT !.location = ""],
    [BaseForm EXCEPT !.tech_stack = <<>>],
    [BaseForm EXCEPT !.email = BadEmail],
    [BaseForm EXCEPT !.email = NoSuffixEmail],
    [BaseForm EXCEPT !.phone = "123"],
    [BaseForm EXCEPT !.country = <<>>],
    [BaseForm EXCEPT !.country = <<"I","N">>],
    [BaseForm EXCEPT !.consent = FALSE],
    [name |-> "", email |-> <<>>, phone |-> "", exp |-> 1, position |-> <<>>,
     location |-> "", country |-> <<>>, tech_stack |-> <<>>, consent |-> FALSE] }

\* the resume confirmation forms the user submits for an uploaded file: the
\* form as pre-filled from the resume with the consent box ticked, and that
\* form with the box left unticked, the email replaced, the role cleared
ResumeForms(file) ==
  LET prefilled == [manual_role |-> infer_role(file.text),
                    manual_email |-> infer_email(file.text),
                    manual_consent |-> TRUE]
  IN { prefilled,
       [prefilled EXCEPT !.manual_consent = FALSE],
       [prefilled EXCEPT !.manual_email = Email2],
       [prefilled EXCEPT !.manual_email = BadEmail],
       [prefilled EXCEPT !.manual_email = Email2, !.manual_role = <<>>] }

\* emails typed into the deletion box
DeleteEmails ==
  { Email1, Email2, BadEmail }

\* response.json()['choices'][0]['message']['content'] of a successful call
Answers ==
  { <<"Q1: a", "A1: a">>, <<"Q1: b", "A1: b">> }

\* outcome of one requests.post + raise_for_status: content or an exception
GenOutcomes ==
  {[ok |-> TRUE, content |-> a] : a \in Answers} \cup {[ok |-> FALSE]}

NoEvent ==
  [kind |-> "none"]

\* most pieces a text handed to the extraction functions is made of, and
\* most calls made on one text
MaxPieces == 2
MaxCalls == 2

\* the pieces: vocabulary terms in other cases than the vocabulary's, two
\* that join into a longer term, role words, a separator
Pieces ==
  { <<"j","a","v","a">>, <<"S","c","r","i","p","t">>, <<"S","Q","L">>,
    <<"g","i","t">>, <<" ">>, <<"M","A","N","A","G","E","R">>,
    <<"e","n","g","i","n","e","e","r">> }

\* the texts of at most n pieces
RECURSIVE TextsOf(_)
TextsOf(n) ==
  IF n = 0 THEN {<<>>}
  ELSE UNION { {t} \cup {t \o w : w \in Pieces} : t \in TextsOf(n - 1) }

ExtractTexts ==
  TextsOf(MaxPieces)

(***************************************************************************)
(* State                                                                   *)
(***************************************************************************)
VARIABLES
  session_state,   \* st.session_state: a dictionary, keys present or absent
  resume_file,     \* value of the file uploader: NoFile or an uploaded text
  store,           \* rows of the candidates table, in insertion order
  rendered,        \* widgets the last script run put on the page
  notices,         \* st.warning / st.error / st.success texts of the last run
  outcome,         \* how the last run ended: "done", "stopped", "exception"
  event,           \* the user action that triggered the last run, with inputs
  gen_calls,       \* ask_gpt invocations made by the last user action
  save_calls,      \* save_candidate_data invocations made by the last action
  cached_for,      \* what the cached questions were asked for: <<>>, or
                   \* <<position and tech_stack of the call's candidate>>
  save_called,     \* save_candidate_data has been called in this session
  extract_text,    \* a text handed to extract_skills_and_role_from_text
  extracted        \* the results of the calls made on extract_text, in order

vars ==
  <<session_state, resume_file, store, rendered, notices, outcome, event,
    gen_calls, save_calls, cached_for, save_called, extract_text, extracted>>

(***************************************************************************)
(* Database                                                                *)
(***************************************************************************)
\* INSERT INTO candidates (...) VALUES (...): one new row with the ten
\* columns of data
save_candidate_data(rows, data) ==
  Append(rows,
         [name |-> data.name, email |-> data.email, phone |-> data.phone,
          exp |-> data.exp, position |-> data.position,
          location |-> data.location, country |-> data.country,
          tech_stack |-> data.tech_stack, consent |-> data.consent,
          timestamp |-> data.timestamp])

\* variant: the WHERE clause is missing
delete_user_data_all(rows, email) ==
  <<>>

\* DELETE FROM candidates WHERE email = ?
delete_user_data(rows, email) ==
  SelectSeq(rows, LAMBDA row : row.email # email)

(***************************************************************************)
(* One run of the script.  A run threads the record r:                     *)
(*   ss, store          session state and table as the run has left them   *)
(*   rendered, notices  what the run has put on the page so far            *)
(*   gen_calls, save_calls  calls made so far                              *)
(*   outcome            "running", or how the run ended                    *)
(***************************************************************************)
StartRun(ss, rows, gcalls, scalls) ==
  [ss |-> ss, store |-> rows, rendered |-> {}, notices |-> {},
   gen_calls |-> gcalls, save_calls |-> scalls, outcome |-> "running"]

Put(ss, key, value) ==
  (key :> value) @@ ss

\* variant: Continue on the resume form saves the record as well
ResumeSection_saves(r, ev, file, skills, ts) ==
  LET r1 == [r EXCEPT !.rendered = @ \cup {"upload"}]
  IN IF ~file.uploaded THEN r1
     ELSE
       LET r2 == [r1 EXCEPT !.rendered = @ \cup {"resume_form"},
                            !.notices = @ \cup {"Resume processed."}]
           candidate == [name |-> "", email |-> ev.manual_email, phone |-> "",
                         exp |-> 0, position |-> ev.manual_role, location |-> "",
                         country |-> <<>>, tech_stack |-> Join(skills, CommaSpace),
                         consent |-> "yes", timestamp |-> ts]
       IN IF ev.kind # "resume_continue" THEN r2
          ELSE IF ~ev.manual_consent
            THEN [r2 EXCEPT !.notices = @ \cup {"GDPR consent required."}]
          ELSE IF ~validate_email(ev.manual_email)
            THEN [r2 EXCEPT !.notices = @ \cup {"Invalid email."}]
          ELSE
            [r2 EXCEPT !.ss = Put(Put(@, "candidate_info", candidate),
                                  "stage", "generate_questions"),
                       !.save_calls = Append(@, candidate),
                       !.store = save_candidate_data(@, candidate)]

\* main.py 187-220: uploader, extraction, resume confirmation form
ResumeSection(r, ev, file, skills, ts) ==
  LET r1 == [r EXCEPT !.rendered = @ \cup {"upload"}]
  IN IF ~file.uploaded THEN r1
     ELSE
       LET r2 == [r1 EXCEPT !.rendered = @ \cup {"resume_form"},
                            !.notices = @ \cup {"Resume processed."}]
       IN IF ev.kind # "resume_continue" THEN r2
          ELSE IF ~ev.manual_consent
            THEN [r2 EXCEPT !.notices = @ \cup {"GDPR consent required."}]
          ELSE IF ~validate_email(ev.manual_email)
            THEN [r2 EXCEPT !.notices = @ \cup {"Invalid email."}]
          ELSE
            [r2 EXCEPT !.ss =
               Put(Put(@, "candidate_info",
                       [name |-> "", email |-> ev.manual_email, phone |-> "",
                        exp |-> 0, position |-> ev.manual_role, location |-> "",
                        country |-> <<>>, tech_stack |-> Join(skills, CommaSpace),
                        consent |-> "yes", timestamp |-> ts]),
                   "stage", "generate_questions")]

\* main.py 222-223
StageDefault(r) ==
  IF "stage" \in DOMAIN r.ss THEN r
  ELSE [r EXCEPT !.ss = Put(@, "stage", "info_gathering")]

\* variant: the email check is missing
FormCheck_no_email(f) ==
  IF f.name = "" \/ f.email = <<>> \/ f.phone = "" \/ f.position = <<>>
       \/ f.location = "" \/ f.tech_stack = <<>>
    THEN "Please fill all required fields."
  ELSE IF ~validate_phone(f.phone, upper(f.country))
    THEN "Enter a valid phone number for your country."
  ELSE IF ~f.consent
    THEN "GDPR consent is required."
  ELSE "ok"

\* variant: the consent check is missing
FormCheck_no_consent(f) ==
  IF f.name = "" \/ f.email = <<>> \/ f.phone = "" \/ f.position = <<>>
       \/ f.location = "" \/ f.tech_stack = <<>>
    THEN "Please fill all required fields."
  ELSE IF ~validate_email(f.email)
    THEN "Enter a valid email."
  ELSE IF ~validate_phone(f.phone, upper(f.country))
    THEN "Enter a valid phone number for your country."
  ELSE "ok"

\* main.py 239-246: the first check of the submit handler that fails, or "ok"
FormCheck(f) ==
  IF f.name = "" \/ f.email = <<>> \/ f.phone = "" \/ f.position = <<>>
       \/ f.location = "" \/ f.tech_stack = <<>>
    THEN "Please fill all required fields."
  ELSE IF ~validate_email(f.email)
    THEN "Enter a valid email."
  ELSE IF ~validate_phone(f.phone, upper(f.country))
    THEN "Enter a valid phone number for your country."
  ELSE IF ~f.consent
    THEN "GDPR consent is required."
  ELSE "ok"

\* variant: the record keeps the upper-cased country passed to the validator
CandidateOf_upper(f, ts) ==
  [name |-> f.name, email |-> f.email, phone |-> f.phone, exp |-> f.exp,
   position |-> f.position, location |-> f.location, country |-> upper(f.country),
   tech_stack |-> f.tech_stack, consent |-> "yes", timestamp |-> ts]

\* main.py 248-253
CandidateOf(f, ts) ==
  [name |-> f.name, email |-> f.email, phone |-> f.phone, exp |-> f.exp,
   position |-> f.position, location |-> f.location, country |-> f.country,
   tech_stack |-> f.tech_stack, consent |-> "yes", timestamp |-> ts]

\* variant: the record is saved but not kept in the session
ManualSection_unkept(r, ev, ts, save_ok) ==
  IF r.outcome # "running" \/ r.ss.stage # "info_gathering" THEN r
  ELSE
    LET r1 == [r EXCEPT !.rendered = @ \cup {"manual_form"}]
    IN IF ev.kind # "manual_submit" THEN r1
       ELSE IF FormCheck(ev.form) # "ok"
         THEN [r1 EXCEPT !.notices = @ \cup {FormCheck(ev.form)}]
       ELSE
         LET candidate == CandidateOf(ev.form, ts)
             r2 == [r1 EXCEPT !.save_calls = Append(@, candidate)]
         IN IF save_ok
              THEN [r2 EXCEPT !.store = save_candidate_data(@, candidate),
                              !.ss = Put(@, "stage", "generate_questions")]
              ELSE [r2 EXCEPT !.outcome = "exception"]

\* main.py 225-256: manual candidate form
ManualSection(r, ev, ts, save_ok) ==
  IF r.outcome # "running" \/ r.ss.stage # "info_gathering" THEN r
  ELSE
    LET r1 == [r EXCEPT !.rendered = @ \cup {"manual_form"}]
    IN IF ev.kind # "manual_submit" THEN r1
       ELSE IF FormCheck(ev.form) # "ok"
         THEN [r1 EXCEPT !.notices = @ \cup {FormCheck(ev.form)}]
       ELSE
         LET candidate == CandidateOf(ev.form, ts)
             r2 == [r1 EXCEPT !.ss = Put(@, "candidate_info", candidate),
                              !.save_calls = Append(@, candidate)]
         IN IF save_ok
              THEN [r2 EXCEPT !.store = save_candidate_data(@, candidate),
                              !.ss = Put(@, "stage", "generate_questions")]
              ELSE [r2 EXCEPT !.outcome = "exception"]

\* ask_gpt(prompt): the call is recorded; gen is what the remote service
\* does with it
ask_gpt(r, data, prompt, gen) ==
  [r EXCEPT !.gen_calls = Append(@, [data |-> data, prompt |-> prompt, result |-> gen])]

\* variant: the cache is not consulted
FirstEntry_always(r, data, prompt, gen) ==
  LET r1 == ask_gpt(r, data, prompt, gen)
  IN IF gen.ok
       THEN [r1 EXCEPT !.ss = Put(@, "generated_questions", gen.content)]
       ELSE [r1 EXCEPT !.notices = @ \cup {"Failed to generate questions"},
                       !.outcome = "stopped"]

\* main.py 264-269: generation on entry, skipped when a result is cached
FirstEntry(r, data, prompt, gen) ==
  IF "generated_questions" \in DOMAIN r.ss THEN r
  ELSE
    LET r1 == ask_gpt(r, data, prompt, gen)
    IN IF gen.ok
         THEN [r1 EXCEPT !.ss = Put(@, "generated_questions", gen.content)]
         ELSE [r1 EXCEPT !.notices = @ \cup {"Failed to generate questions"},
                         !.outcome = "stopped"]

\* variant: the new text is appended to the cached text
RegenerateButton_append(r, ev, data, prompt, gen) ==
  IF r.outcome # "running" THEN r
  ELSE
    LET r1 == [r EXCEPT !.rendered = @ \cup {"regenerate"}]
    IN IF ev.kind # "regenerate" THEN r1
       ELSE
         LET r2 == ask_gpt(r1, data, prompt, gen)
         IN IF gen.ok
              THEN [r2 EXCEPT !.ss = Put(@, "generated_questions",
                                         @.generated_questions \o gen.content),
                              !.outcome = "rerun"]
              ELSE [r2 EXCEPT !.outcome = "exception"]

\* main.py 276-279: Regenerate button; the call is outside any try
RegenerateButton(r, ev, data, prompt, gen) ==
  IF r.outcome # "running" THEN r
  ELSE
    LET r1 == [r EXCEPT !.rendered = @ \cup {"regenerate"}]
    IN IF ev.kind # "regenerate" THEN r1
       ELSE
         LET r2 == ask_gpt(r1, data, prompt, gen)
         IN IF gen.ok
              THEN [r2 EXCEPT !.ss = Put(@, "generated_questions", gen.content),
                              !.outcome = "rerun"]
              ELSE [r2 EXCEPT !.outcome = "exception"]

\* variant: a sent email closes the interview
EmailButton_ends(r, ev, email_ok) ==
  IF r.outcome # "running" THEN r
  ELSE
    LET r1 == [r EXCEPT !.rendered = @ \cup {"email"}]
    IN IF ev.kind # "email" THEN r1
       ELSE IF email_ok
         THEN [r1 EXCEPT !.notices = @ \cup {"Email sent successfully!"},
                         !.ss = Put(@, "stage", "end")]
         ELSE [r1 EXCEPT !.notices = @ \cup {"Failed to send email"}]

\* main.py 280-283 with send_email_with_questions 101-139
EmailButton(r, ev, email_ok) ==
  IF r.outcome # "running" THEN r
  ELSE
    LET r1 == [r EXCEPT !.rendered = @ \cup {"email"}]
    IN IF ev.kind # "email" THEN r1
       ELSE IF email_ok
         THEN [r1 EXCEPT !.notices = @ \cup {"Email sent successfully!"}]
         ELSE [r1 EXCEPT !.notices = @ \cup {"Failed to send email"}]

\* main.py 284-291
DownloadButton(r) ==
  IF r.outcome # "running" THEN r
  ELSE [r EXCEPT !.rendered = @ \cup {"download"}]

\* main.py 292-295
FinishButton(r, ev) ==
  IF r.outcome # "running" THEN r
  ELSE
    LET r1 == [r EXCEPT !.rendered = @ \cup {"finish"}]
    IN IF ev.kind # "finish" THEN r1
       ELSE [r1 EXCEPT !.notices = @ \cup {"Thank you! We'll be in touch."},
                       !.ss = Put(@, "stage", "end")]

\* main.py 258-263: whether the run enters the generate_questions block;
\* reading candidate_info when the key is absent raises
EnterGenerate(r) ==
  IF r.outcome # "running" \/ r.ss.stage # "generate_questions" THEN r
  ELSE IF "candidate_info" \notin DOMAIN r.ss
    THEN [r EXCEPT !.outcome = "exception"]
  ELSE r

InGenerate(r) ==
  r.outcome = "running" /\ r.ss.stage = "generate_questions"

\* main.py 264-273
EntryPart(r, techs, gen) ==
  LET data == r.ss.candidate_info
      r1 == FirstEntry(r, data, generate_questions_prompt(techs, data.position), gen)
  IN IF r1.outcome = "running"
     THEN [r1 EXCEPT !.notices = @ \cup {"Here are your interview questions:"}]
     ELSE r1

\* main.py 275-295: the four columns of buttons
RegeneratePart(r, ev, techs, gen) ==
  LET data == r.ss.candidate_info
  IN RegenerateButton(r, ev, data, generate_questions_prompt(techs, data.position), gen)

\* main.py 297-305: deletion section
DeletionSection(r, ev) ==
  IF r.outcome # "running" THEN r
  ELSE
    LET r1 == [r EXCEPT !.rendered = @ \cup {"delete"}]
    IN IF ev.kind # "delete" THEN r1
       ELSE IF validate_email(ev.delete_email)
         THEN [r1 EXCEPT !.store = delete_user_data(@, ev.delete_email),
                         !.notices = @ \cup {"Your data has been deleted."}]
         ELSE [r1 EXCEPT !.notices = @ \cup {"Enter a valid email."}]

\* reaching the end of the script ends the run
EndOfScript(r) ==
  IF r.outcome = "running" THEN [r EXCEPT !.outcome = "done"] ELSE r

\* the orderings extract_tech_keywords(data["tech_stack"]) may return
TechChoices(r) ==
  IF InGenerate(r) THEN extract_tech_keywords(r.ss.candidate_info.tech_stack)
  ELSE {<<>>}

\* the orderings of skills the resume section may compute
SkillChoices(file) ==
  IF file.uploaded THEN extract_tech_keywords(file.text) ELSE {<<>>}

\* whether the run will reach a call of ask_gpt (the environment's answer
\* is drawn only then)
NeedsGen(r, ev) ==
  /\ InGenerate(r)
  /\ ("generated_questions" \notin DOMAIN r.ss \/ ev.kind = "regenerate")

GenChoices(r, ev) ==
  IF NeedsGen(r, ev) THEN GenOutcomes ELSE {[ok |-> FALSE]}

TsChoices(ev) ==
  IF ev.kind \in {"resume_continue", "manual_submit"}
  THEN Timestamps ELSE {""}

\* main.py 258-305 from the record r the forms have left
ScriptTail(r, ev, email_ok) ==
  UNION { UNION { UNION { UNION { UNION { UNION { UNION {
    { EndOfScript(DeletionSection(r6, ev)) }
    : r6 \in {IF InGenerate(r2) THEN FinishButton(r5, ev) ELSE r5} }
    : r5 \in {IF InGenerate(r2) THEN DownloadButton(EmailButton(r4, ev, email_ok)) ELSE r4} }
    : r4 \in {IF InGenerate(r2) THEN RegeneratePart(r3, ev, techs, gen) ELSE r3} }
    : r3 \in {IF InGenerate(r2) THEN EntryPart(r2, techs, gen) ELSE r2} }
    : gen \in GenChoices(r2, ev) }
    : techs \in TechChoices(r2) }
    : r2 \in {EnterGenerate(r)} }

\* main.py 187-256 from the session state ss and table rows
ScriptHead(ss, rows, gcalls, scalls, ev, file, ts, save_ok) ==
  UNION { UNION {
    { ManualSection(r2, ev, ts, save_ok) }
    : r2 \in {StageDefault(r1)} }
    : r1 \in {ResumeSection(StartRun(ss, rows, gcalls, scalls), ev, file, skills, ts) :
                skills \in SkillChoices(file)} }

\* The records one run of the script may end in: from session state ss and
\* table rows, triggered by the widget event ev, with the uploader holding
\* file; the timestamp read and the outcomes of the calls to the store, the
\* question service and the mail server are the environment's.
Script(ss, rows, gcalls, scalls, ev, file) ==
  UNION { UNION { UNION { UNION {
    ScriptTail(r, ev, email_ok)
    : r \in ScriptHead(ss, rows, gcalls, scalls, ev, file, ts, save_ok) }
    : email_ok \in (IF ev.kind = "email" THEN BOOLEAN ELSE {TRUE}) }
    : save_ok \in (IF ev.kind = "manual_submit" THEN BOOLEAN ELSE {TRUE}) }
    : ts \in TsChoices(ev) }

\* st.rerun(): the script runs again from the top on the session state the
\* interrupted run has left, with no widget event
AfterRerun(r, file) ==
  IF r.outcome # "rerun" THEN {r}
  ELSE Script(r.ss, r.store, r.gen_calls, r.save_calls, NoEvent, file)

\* main.py 262-267, 277-278: both call sites build the prompt from the
\* session's candidate and store the text a successful call returns; the
\* candidate of the last successful call among calls, or prev when none
AskedFor(prev, calls) ==
  LET oks == {i \in 1..Len(calls) : calls[i].result.ok}
  IN IF oks = {} THEN prev
     ELSE LET last == CHOOSE i \in oks : \A j \in oks : j <= i
          IN <<[position |-> calls[last].data.position,
                tech_stack |-> calls[last].data.tech_stack]>>

\* the state a finished run leaves
Leaves(r, ev, file) ==
  /\ session_state' = r.ss
  /\ store' = r.store
  /\ rendered' = r.rendered
  /\ notices' = r.notices
  /\ outcome' = r.outcome
  /\ gen_calls' = r.gen_calls
  /\ save_calls' = r.save_calls
  /\ resume_file' = file
  /\ event' = ev
  /\ cached_for' = AskedFor(IF ev.kind = "new_session" THEN <<>> ELSE cached_for,
                            r.gen_calls)
  /\ save_called' = (r.save_calls # <<>> \/ (ev.kind # "new_session" /\ save_called))
  /\ UNCHANGED <<extract_text, extracted>>

\* One user interaction: the script run it triggers, from the current
\* session state, with the uploader holding file.
Run(ev, file) ==
  \E r \in Script(session_state, store, <<>>, <<>>, ev, file) :
    \E q \in AfterRerun(r, file) :
      Leaves(q, ev, file)

(***************************************************************************)
(* Initial state: a new session has loaded the page once, table empty      *)
(***************************************************************************)
Init ==
  \E r \in Script(<<>>, <<>>, <<>>, <<>>, [kind |-> "new_session"], NoFile) :
    /\ session_state = r.ss
    /\ store = r.store
    /\ rendered = r.rendered
    /\ notices = r.notices
    /\ outcome = r.outcome
    /\ gen_calls = r.gen_calls
    /\ save_calls = r.save_calls
    /\ resume_file = NoFile
    /\ event = [kind |-> "new_session"]
    /\ cached_for = AskedFor(<<>>, r.gen_calls)
    /\ save_called = (r.save_calls # <<>>)
    /\ extract_text = <<>>
    /\ extracted = <<>>

(***************************************************************************)
(* User actions                                                            *)
(***************************************************************************)
\* choosing, replacing or removing the file in the uploader
UploadResume ==
  /\ "upload" \in rendered
  /\ \E file \in {NoFile} \cup {[uploaded |-> TRUE, text |-> t] : t \in ResumeTexts} :
       /\ file # resume_file
       /\ Run([kind |-> "upload"], file)

\* "Continue" on the resume confirmation form
ResumeContinue ==
  /\ "resume_form" \in rendered
  /\ \E f \in ResumeForms(resume_file) :
       Run([kind |-> "resume_continue", manual_role |-> f.manual_role,
            manual_email |-> f.manual_email, manual_consent |-> f.manual_consent],
           resume_file)

\* "Submit" on the candidate form
ManualSubmit ==
  /\ "manual_form" \in rendered
  /\ \E form \in ManualForms :
       Run([kind |-> "manual_submit", form |-> form], resume_file)

Regenerate ==
  /\ "regenerate" \in rendered
  /\ Run([kind |-> "regenerate"], resume_file)

EmailMe ==
  /\ "email" \in rendered
  /\ Run([kind |-> "email"], resume_file)

DownloadPdf ==
  /\ "download" \in rendered
  /\ Run([kind |-> "download"], resume_file)

Finish ==
  /\ "finish" \in rendered
  /\ Run([kind |-> "finish"], resume_file)

DeleteMyData ==
  /\ "delete" \in rendered
  /\ \E delete_email \in DeleteEmails :
       Run([kind |-> "delete", delete_email |-> delete_email], resume_file)

\* the page is opened afresh: empty session state, empty uploader; the
\* candidates table is kept
NewSession ==
  /\ Len(store) < MaxStore
  /\ \E r \in Script(<<>>, store, <<>>, <<>>, [kind |-> "new_session"], NoFile) :
       Leaves(r, [kind |-> "new_session"], NoFile)

Next ==
  \/ UploadResume
  \/ ResumeContinue
  \/ ManualSubmit
  \/ Regenerate
  \/ EmailMe
  \/ DownloadPdf
  \/ Finish
  \/ DeleteMyData
  \/ NewSession

Spec ==
  Init /\ [][Next]_vars

(***************************************************************************)
(* The extraction functions of utils.py on their own: a text, and calls of *)
(* extract_skills_and_role_from_text on it                                 *)
(***************************************************************************)
ExtractInit ==
  /\ extract_text \in ExtractTexts
  /\ extracted = <<>>
  /\ session_state = <<>>
  /\ resume_file = NoFile
  /\ store = <<>>
  /\ rendered = {}
  /\ notices = {}
  /\ outcome = "done"
  /\ event = NoEvent
  /\ gen_calls = <<>>
  /\ save_calls = <<>>
  /\ cached_for = <<>>
  /\ save_called = FALSE

\* skills, role, extracted_email = extract_skills_and_role_from_text(text)
ExtractCall ==
  /\ Len(extracted) < MaxCalls
  /\ \E res \in extract_skills_and_role_from_text(extract_text) :
       extracted' = Append(extracted, res)
  /\ UNCHANGED <<extract_text, session_state, resume_file, store, rendered,
                 notices, outcome, event, gen_calls, save_calls, cached_for,
                 save_called>>

ExtractNext ==
  ExtractCall

ExtractSpec ==
  ExtractInit /\ [][ExtractNext]_vars

(***************************************************************************)
(* Properties                                                              *)
(***************************************************************************)
\* the cached questions of a session state: <<text>>, or <<>> when absent
Cached(ss) ==
  IF "generated_questions" \in DOMAIN ss THEN <<ss.generated_questions>> ELSE <<>>

\* a failing call among the generator calls of the last action
FailedCall ==
  \E i \in 1..Len(gen_calls) : ~gen_calls[i].result.ok

\* C1: every row of the candidate store, and the candidate record passed to
\* every invocation of the generator, has consent "yes" and an email that
\* passes validate_email; a record is passed to save only for a submission
\* whose consent box is ticked.
C1_ConsentAndValidEmail ==
  /\ \A i \in 1..Len(store) :
       store[i].consent = "yes" /\ validate_email(store[i].email)
  /\ \A i \in 1..Len(gen_calls) :
       gen_calls[i].data.consent = "yes" /\ validate_email(gen_calls[i].data.email)
  /\ \A i \in 1..Len(save_calls) :
       /\ save_calls[i].consent = "yes" /\ validate_email(save_calls[i].email)
       /\ event.kind = "manual_submit" /\ event.form.consent

\* C1 witness: a stored row and a generator call in the same action
C1_Witness ==
  /\ Len(store) > 0
  /\ Len(gen_calls) > 0
  /\ Len(save_calls) > 0

\* a transition condition of the manual form fails for form f
FailsACondition(f) ==
  \/ f.name = "" \/ f.email = <<>> \/ f.phone = ""
  \/ f.position = <<>> \/ f.location = "" \/ f.tech_stack = <<>>
  \/ ~validate_email(f.email)
  \/ ~validate_phone(f.phone, upper(f.country))
  \/ ~f.consent

\* C2: a manual-form submission at info_gathering in which a transition
\* condition fails leaves the stage at info_gathering, calls save zero
\* times and leaves the candidate store unchanged.
C2_FailedSubmitChangesNothing ==
  [][ (/\ session_state.stage = "info_gathering"
       /\ event'.kind = "manual_submit"
       /\ FailsACondition(event'.form))
      => (/\ session_state'.stage = "info_gathering"
          /\ save_calls' = <<>>
          /\ store' = store) ]_vars

\* C2 witness: a submission refused for missing consent
C2_Witness ==
  /\ event.kind = "manual_submit"
  /\ ~event.form.consent
  /\ "GDPR consent is required." \in notices
  /\ session_state.stage = "info_gathering"

\* the fields of record c equal the values of form f
MatchesForm(c, f) ==
  /\ c.name = f.name /\ c.email = f.email /\ c.phone = f.phone
  /\ c.exp = f.exp /\ c.position = f.position /\ c.location = f.location
  /\ c.country = f.country /\ c.tech_stack = f.tech_stack
  /\ c.consent = "yes" /\ c.timestamp \in Timestamps

C4_EndIsTerminal ==
  [][ (session_state.stage = "end" /\ event'.kind # "new_session")
      => session_state'.stage = "end" ]_vars

\* C5: the stage becomes generate_questions only on a submission whose
\* position and tech stack are non-empty, whose email passes validation and
\* whose consent is ticked; on the manual path name, phone and location are
\* also non-empty and the phone is valid for the country.
C5_GuardedEntry ==
  [][ (session_state.stage # "generate_questions"
         /\ session_state'.stage = "generate_questions")
      => \/ /\ event'.kind = "manual_submit"
            /\ ~FailsACondition(event'.form)
         \/ /\ event'.kind = "resume_continue"
            /\ event'.manual_role # <<>>
            /\ session_state'.candidate_info.position # <<>>
            /\ session_state'.candidate_info.tech_stack # <<>>
            /\ validate_email(event'.manual_email)
            /\ event'.manual_consent ]_vars

\* C6: a run that enters generate_questions with nothing cached invokes the
\* generator exactly once and caches the text it returns; a run that starts
\* with questions cached and is not a Regenerate click invokes the generator
\* zero times and leaves the cache unchanged.
C6_GenerateOnceThenCache ==
  [][ /\ (/\ Cached(session_state) = <<>>
          /\ event'.kind # "new_session"
          /\ session_state'.stage = "generate_questions")
         => (/\ Len(gen_calls') = 1
             /\ gen_calls'[1].result.ok
                  => Cached(session_state') = <<gen_calls'[1].result.content>>)
      /\ (/\ Cached(session_state) # <<>>
          /\ event'.kind \notin {"regenerate", "new_session"})
         => (/\ gen_calls' = <<>>
             /\ Cached(session_state') = Cached(session_state)) ]_vars

\* C6 witness: a render of generate_questions with questions cached, caused
\* by something other than Regenerate, that made no generator call
C6_Witness ==
  /\ event.kind = "download"
  /\ session_state.stage = "generate_questions"
  /\ Cached(session_state) # <<>>
  /\ gen_calls = <<>>

\* C7: a Regenerate click in generate_questions whose call succeeds invokes
\* the generator exactly once, leaves generated_questions equal to exactly
\* the text that call returned, and leaves the stage generate_questions.
C7_RegenerateOverwrites ==
  [][ (/\ event'.kind = "regenerate"
       /\ session_state.stage = "generate_questions"
       /\ ~FailedCall')
      => (/\ Len(gen_calls') = 1
          /\ gen_calls'[1].result.ok
          /\ Cached(session_state') = <<gen_calls'[1].result.content>>
          /\ session_state'.stage = "generate_questions") ]_vars

\* C7 witness: a successful Regenerate has run to the end of the script
C7_Witness ==
  /\ event.kind = "regenerate"
  /\ outcome = "done"
  /\ Len(gen_calls) = 1
  /\ gen_calls[1].result.ok
  /\ "regenerate" \in rendered

\* C8: whenever an invocation of the generator fails, the failure is caught
\* and reported (the run ends without an exception), the stage stays
\* generate_questions and the cache is as it was.
C8_GeneratorFailureCaught ==
  [][ FailedCall'
      => (/\ outcome' # "exception"
          /\ "Failed to generate questions" \in notices'
          /\ session_state'.stage = "generate_questions"
          /\ event'.kind # "new_session"
               => Cached(session_state') = Cached(session_state)) ]_vars

\* C9: after the generation on entry has failed, the stage is
\* generate_questions, nothing is cached and the Regenerate button is on
\* the page.
C9_RegenerateAfterFailure ==
  outcome = "stopped"
    => (/\ session_state.stage = "generate_questions"
        /\ Cached(session_state) = <<>>
        /\ "regenerate" \in rendered)

\* the rows of a table whose email is not e, in order
RECURSIVE RowsOfOthers(_, _)
RowsOfOthers(rows, e) ==
  IF rows = <<>> THEN <<>>
  ELSE IF Head(rows).email = e THEN RowsOfOthers(Tail(rows), e)
  ELSE <<Head(rows)>> \o RowsOfOthers(Tail(rows), e)

\* C10: a Delete request with an email that passes validation removes the
\* rows with that email and no other row; with an email that fails
\* validation it leaves the table unchanged; in both cases the session
\* state (stage, candidate, cached questions) is unchanged.
C10_DeleteFrame ==
  [][ event'.kind = "delete"
      => (/\ validate_email(event'.delete_email)
               => store' = RowsOfOthers(store, event'.delete_email)
          /\ ~validate_email(event'.delete_email) => store' = store
          /\ session_state' = session_state) ]_vars

\* C10 witness: a deletion for a valid email has run on a table that holds
\* a row of another email, and that row is still there
C10_Witness ==
  /\ event.kind = "delete"
  /\ event.delete_email = Email1
  /\ "Your data has been deleted." \in notices
  /\ Len(store) = 1
  /\ store[1].email = Email2

\* C11: in every session state a run of the script leaves behind it
\* (info_gathering, generate_questions with questions cached,
\* generate_questions after a failed generator call that st.stop() ended,
\* end), the Delete button is on the page.
C11_DeleteAlwaysAvailable ==
  outcome \in {"done", "stopped"} => "delete" \in rendered

\* word occurs in text as a run of consecutive characters, letters compared
\* without regard to case
OccursIn(word, text) ==
  \E i \in 1..Len(text) : \E j \in i..Len(text) :
    lower(SubSeq(text, i, j)) = lower(word)

\* C12: every call of skill detection on a text returns the vocabulary terms
\* that occur in the text without regard to case, each of them once and no
\* other term, and two calls on the same text return the same set.
C12_SkillsExactSet ==
  \A k \in 1..Len(extracted) :
    /\ \A i, j \in 1..Len(extracted[k].skills) :
         i # j => extracted[k].skills[i] # extracted[k].skills[j]
    /\ Range(extracted[k].skills) = {kw \in Range(keywords) : OccursIn(kw, extract_text)}
    /\ \A m \in 1..Len(extracted) :
         Range(extracted[m].skills) = Range(extracted[k].skills)

\* C12 witness: two calls on a text that spells java and Script in a row
\* have returned Java and JavaScript, as lists in different orders
C12_Witness ==
  /\ Len(extracted) = 2
  /\ extract_text = <<"j","a","v","a","S","c","r","i","p","t">>
  /\ Range(extracted[1].skills) = {<<"J","a","v","a">>, <<"J","a","v","a","S","c","r","i","p","t">>}
  /\ extracted[1].skills # extracted[2].skills

\* the positions of text at which a role word starts, whatever the case
RoleStarts(text) ==
  {i \in 1..Len(text) :
     \E w \in Range(role_words) :
       /\ i + Len(w) - 1 <= Len(text)
       /\ lower(SubSeq(text, i, i + Len(w) - 1)) = w}

\* C13: every call of role inference on a text returns the leftmost role
\* word of the text, title-cased, when the text has one, and an absent
\* (empty) role when it has none.
C13_RoleOrAbsent ==
  \A k \in 1..Len(extracted) :
    IF RoleStarts(extract_text) = {}
    THEN extracted[k].role = <<>>
    ELSE \E i \in RoleStarts(extract_text) : \E w \in Range(role_words) :
           /\ \A g \in RoleStarts(extract_text) : i <= g
           /\ i + Len(w) - 1 <= Len(extract_text)
           /\ lower(SubSeq(extract_text, i, i + Len(w) - 1)) = w
           /\ extracted[k].role = title(w)

\* C14: a click on the email button, whether the mail is sent or the send
\* fails, and a click on the PDF download button, made at stage
\* generate_questions, leave the session state (stage, candidate, cached
\* questions) and the candidates table as they were and make no call to the
\* generator.
C14_EmailDownloadFrame ==
  [][ (/\ event'.kind \in {"email", "download"}
       /\ session_state.stage = "generate_questions")
      => (/\ session_state' = session_state
          /\ store' = store
          /\ gen_calls' = <<>>) ]_vars

\* C14 witness: an email request has failed at stage generate_questions with
\* questions cached and a row in the table
C14_Witness ==
  /\ event.kind = "email"
  /\ "Failed to send email" \in notices
  /\ session_state.stage = "generate_questions"
  /\ Cached(session_state) # <<>>
  /\ store # <<>>

\* C15: when the save of a manual submission that passes every check
\* fails (save is called and the table gets no row), the run does not end
\* in an uncaught exception and the session state is the one before the
\* submission: stage info_gathering, candidate and cached questions as they
\* were.
C15_SaveFailureCaught ==
  [][ (/\ event'.kind = "manual_submit"
       /\ save_calls' # <<>>
       /\ store' = store)
      => (/\ outcome' # "exception"
          /\ session_state' = session_state) ]_vars

\* C16: whenever questions are cached, they are the text of a generator
\* call made for the position and the tech stack of the candidate the
\* session holds now.
C16_CacheIsForCandidate ==
  Cached(session_state) # <<>>
    => (/\ "candidate_info" \in DOMAIN session_state
        /\ cached_for = <<[position |-> session_state.candidate_info.position,
                           tech_stack |-> session_state.candidate_info.tech_stack]>>)

\* C17: in every reachable state whose stage is generate_questions the
\* session holds a candidate record.
C17_CandidatePresent ==
  session_state.stage = "generate_questions"
    => "candidate_info" \in DOMAIN session_state

\* C17 witness: Continue on the resume form has moved a session that held no
\* candidate to generate_questions, and the generate block has read the
\* record and asked for its questions
C17_Witness ==
  /\ event.kind = "resume_continue"
  /\ session_state.stage = "generate_questions"
  /\ "candidate_info" \in DOMAIN session_state
  /\ ~save_called
  /\ Len(gen_calls) = 1
  /\ gen_calls[1].data = session_state.candidate_info

\* C18: within a session, save is called at most once (no action calls it
\* after an earlier action of the session has), no action calls it twice,
\* only a manual submission calls it, Continue on the resume form leaves the
\* table as it was, and a submission of the manual form made after the
\* stage has left info_gathering runs no handler: stage, candidate and table
\* stay as they were and save is not called.
C18_SaveAtMostOnce ==
  [][ event'.kind # "new_session"
      => (/\ save_called => save_calls' = <<>>
          /\ Len(save_calls') <= 1
          /\ save_calls' # <<>> => event'.kind = "manual_submit"
          /\ event'.kind = "resume_continue"
               => (store' = store /\ save_calls' = <<>>)
          /\ (event'.kind = "manual_submit" /\ session_state.stage # "info_gathering")
               => (/\ session_state'.stage = session_state.stage
                   /\ session_state'.candidate_info = session_state.candidate_info
                   /\ store' = store
                   /\ save_calls' = <<>>)) ]_vars

\* C18, amended: within a session at most one save succeeds. No action
\* calls save twice; only a manual submission made at info_gathering calls
\* it; a row is added only by such a call, which then moves the stage to
\* generate_questions; the stage never returns to info_gathering; so after a
\* save that succeeded none is called, while after one that failed the
\* stage is still info_gathering and the submission can be made again.
\* Continue on the resume form leaves the table as it was, and a submission
\* of the manual form made after the stage has left info_gathering runs no
\* handler: stage, candidate and table stay as they were and save is not
\* called.
C18_OneSaveSucceeds ==
  [][ event'.kind # "new_session"
      => (/\ Len(save_calls') <= 1
          /\ save_calls' # <<>>
               => (event'.kind = "manual_submit" /\ session_state.stage = "info_gathering")
          /\ Len(store') > Len(store)
               => (/\ save_calls' # <<>>
                   /\ store' = Append(store, save_calls'[1])
                   /\ session_state'.stage = "generate_questions")
          /\ session_state.stage # "info_gathering"
               => session_state'.stage # "info_gathering"
          /\ event'.kind = "resume_continue"
               => (store' = store /\ save_calls' = <<>>)
          /\ (event'.kind = "manual_submit" /\ session_state.stage # "info_gathering")
               => (/\ session_state'.stage = session_state.stage
                   /\ session_state'.candidate_info = session_state.candidate_info
                   /\ store' = store
                   /\ save_calls' = <<>>)) ]_vars

\* C18 witness: a manual submission has called save once, the call has
\* stored the table's only row and the stage has moved on
C18_Witness ==
  /\ event.kind = "manual_submit"
  /\ Len(save_calls) = 1
  /\ store = <<save_calls[1]>>
  /\ save_called
  /\ session_state.stage = "generate_questions"
  /\ session_state.candidate_info.email = Email2
  /\ outcome = "done"

====
